---------------------------- MODULE Spec2Model ----------------------------
(***************************************************************************)
(* A model of App.js of three.js-volume-renderer: the bootstrap            *)
(* (App._init), the App constructor with its atlas fill, the lil.GUI       *)
(* handlers that drive VolumeRenderer.updateMaterial, and the frame        *)
(* update (App.#update).                                                   *)
(*                                                                         *)
(* Units.  Host timestamps are milliseconds; they are kept here in         *)
(* microseconds-of-a-millisecond, i.e. 1 ms = UnitsPerMs units.  Delta     *)
(* time is kept in units of 1e-6 s, so 1 s = UnitsPerSecond units and the  *)
(* lower clamp 1e-6 s is MinDt = 1 unit.  The time scale is kept in        *)
(* tenths, and uniforms.time.value in units of 1e-7 s.                     *)
(***************************************************************************)
EXTENDS Integers, Sequences, FiniteSets, TLC

VARIABLES
    pc,                 \* position of App._init: "idle", "fetching", "decompressing", "settled", "started"
    visibilityData,     \* Null, or <<"data">> once the bytes were scaled into the Float32Array
    fetchFailed,        \* the promise chain was rejected (fetch, blob or decompression)
    appConstructed,     \* new App(...) has run
    loopStarted,        \* renderer.setAnimationLoop(update) was called
    createAtlasCalls,   \* number of calls of volumeRenderer.createAtlasTexture
    updateAtlasCalls,   \* number of calls of volumeRenderer.updateAtlasTexture
    atlasReads,         \* what the sample callback read, per probed index tuple
    meta,               \* sootVisibilityMeta
    lastTime,           \* this.#lastTime: Null or <<timestamp>>
    timescale,          \* this.#timescale.value, in tenths
    timeValue,          \* uniforms.time.value, in 1e-7 s
    randomValue,        \* uniforms.random.value
    spinningCubeVisible,\* this.#spinningCube.visible
    pointLightVisible,  \* this.#pointLight.visible
    options,            \* the options object of the constructor
    glslTextarea,       \* glslTextarea.value
    updateMaterialCalls,\* number of calls of volumeRenderer.updateMaterial
    lastMaterialArg,    \* Null, or <<options as passed to the last updateMaterial call>>
    program,            \* the feature set of the active shader program
    lastUpdateFailed,   \* the last updateMaterial call raised a compile error
    optionsBefore,      \* history: the options as they were before the last GUI event
    frameCount,         \* number of frame updates run
    frameIn,            \* history: what the last frame update started from (lastTime, timestamp, time uniform, time scale)
    dt,                 \* history: the delta time of the last frame update
    frameRenders,       \* history: the renders of the last frame update, in order
    eventCount,         \* number of GUI events handled
    cur,                \* the index tuple and flat index last evaluated (index specification)
    uniforms,           \* volumeRenderer.uniforms: the values the GUI writes (Null: the renderer's default)
    paletteLoads,       \* the TextureLoader loads started by setPalette, in order, each with its state
    paletteControl,     \* the value of the Palette control
    roundTrip           \* the value a conversion round trip started from (conversion specification)

vars == <<pc, visibilityData, fetchFailed, appConstructed, loopStarted,
          createAtlasCalls, updateAtlasCalls, atlasReads, meta, lastTime,
          timescale, timeValue, randomValue, spinningCubeVisible,
          pointLightVisible, options, glslTextarea, updateMaterialCalls,
          lastMaterialArg, program, lastUpdateFailed, optionsBefore,
          frameCount, frameIn, dt, frameRenders, eventCount, cur,
          uniforms, paletteLoads, paletteControl, roundTrip>>

Null == <<>>

(***************************************************************************)
(* Bounds of the model.                                                    *)
(***************************************************************************)
MaxFrames == 2      \* frame updates per behaviour
MaxEvents == 2      \* GUI events per behaviour
MaxSteps == 3       \* frame updates and GUI events per behaviour, together
MaxProbe == 1       \* time indices probed: 0..MaxProbe and the last one
MaxDim == 3         \* grid dimensions and time counts of the index specification

Min(a, b) == IF a < b THEN a ELSE b
Max(a, b) == IF a > b THEN a ELSE b

(***************************************************************************)
(* IEEE 754 double arithmetic, as far as the opacity handlers need it:     *)
(* positive normal numbers m * 2^e with a 53-bit significand m, kept as    *)
(* two limbs <<hi, lo>> of 26 bits (m = hi * Limb + lo), and               *)
(* division rounded to nearest, ties to even.                              *)
(***************************************************************************)
Limb == 67108864

LimbDouble(a) == <<2 * a[1] + (2 * a[2]) \div Limb, (2 * a[2]) % Limb>>
LimbGeq(a, b) == a[1] > b[1] \/ (a[1] = b[1] /\ a[2] >= b[2])
LimbSub(a, b) ==
    IF a[2] >= b[2] THEN <<a[1] - b[1], a[2] - b[2]>>
    ELSE <<a[1] - b[1] - 1, a[2] + Limb - b[2]>>
LimbInc(a) == IF a[2] + 1 = Limb THEN <<a[1] + 1, 0>> ELSE <<a[1], a[2] + 1>>
LimbIsEven(a) == a[2] % 2 = 0

\* The least and the first too large significand: 2^52 and 2^53.
SignificandMin == <<Limb, 0>>
SignificandEnd == <<2 * Limb, 0>>

\* The double of a positive integer below Limb (exact).
RECURSIVE Normalize(_, _)
Normalize(m, e) ==
    IF LimbGeq(m, SignificandMin) THEN [m |-> m, e |-> e]
    ELSE Normalize(LimbDouble(m), e - 1)

FromInt(n) == Normalize(<<0, n>>, 0)

\* n more quotient bits of rem / d, appended to q (which never fills up
\* before they are done): <<quotient, remainder>>.
RECURSIVE QuotientBits(_, _, _, _)
QuotientBits(q, rem, d, n) ==
    IF n = 0 \/ LimbGeq(q, SignificandEnd) THEN <<q, rem>>
    ELSE LET r2 == LimbDouble(rem) IN
         IF LimbGeq(r2, d)
         THEN QuotientBits(LimbInc(LimbDouble(q)), LimbSub(r2, d), d, n - 1)
         ELSE QuotientBits(LimbDouble(q), r2, d, n - 1)

\* The quotient q with remainder rem of a division by d, times 2^e, rounded
\* to nearest, ties to even.
RoundQuotient(q, rem, d, e) ==
    LET twoR == LimbDouble(rem)
        up   == IF twoR = d THEN ~LimbIsEven(q) ELSE LimbGeq(twoR, d)
        m    == IF up THEN LimbInc(q) ELSE q
    IN  IF m = SignificandEnd THEN [m |-> SignificandMin, e |-> e + 1]
        ELSE [m |-> m, e |-> e]

\* a / b, rounded to nearest, ties to even.
FDiv(a, b) ==
    LET big == LimbGeq(a.m, b.m)
        qr  == IF big THEN QuotientBits(<<0, 1>>, LimbSub(a.m, b.m), b.m, 52)
               ELSE QuotientBits(<<0, 0>>, a.m, b.m, 53)
        e   == IF big THEN a.e - b.e - 52 ELSE a.e - b.e - 53
    IN  RoundQuotient(qr[1], qr[2], b.m, e)

\* a <= b, for positive doubles.
FLeq(a, b) == a.e < b.e \/ (a.e = b.e /\ LimbGeq(b.m, a.m))

\* The next double above a.
FNext(a) ==
    IF LimbInc(a.m) = SignificandEnd THEN [m |-> SignificandMin, e |-> a.e + 1]
    ELSE [m |-> LimbInc(a.m), e |-> a.e]

\* a and b are the same double or neighbours.
FWithinOneUlp(a, b) == a = b \/ FNext(a) = b \/ FNext(b) = a

\* The double of the decimal k / 100, as a number literal or a slider of
\* step 0.01 gives it, and of k / 1000.
Hundredths(k) == FDiv(FromInt(k), FromInt(100))
Thousandths(k) == FDiv(FromInt(k), FromInt(1000))

(***************************************************************************)
(* sootVisibilityMeta.  timestep 0.25 is the fraction                      *)
(* TimestepNum / TimestepDen.                                              *)
(***************************************************************************)
TimeCount == 151
GridSizeX == 50
GridSizeY == 50
GridSizeZ == 50
TimestepNum == 1
TimestepDen == 4

sootVisibilityMeta ==
    [time_count |-> TimeCount,
     timestep   |-> [num |-> TimestepNum, den |-> TimestepDen],
     grid_size  |-> [x |-> GridSizeX, y |-> GridSizeY, z |-> GridSizeZ]]


(***************************************************************************)
(* The sample callback's index expression (lines 130-133).  The last       *)
(* argument t is the fraction tNum / tDen, so the value of the expression  *)
(* is the fraction num / den.                                              *)
(***************************************************************************)
\* The index expression with the z index scaled by the x size.
SampleIndexWrongStride(gs, xi, yi, zi, tNum, tDen) ==
    [num |-> tDen * (yi + zi * gs.x + xi * gs.y * gs.z)
               + tNum * gs.x * gs.y * gs.z,
     den |-> tDen]

SampleIndex(gs, xi, yi, zi, tNum, tDen) ==
    [num |-> tDen * (yi + zi * gs.y + xi * gs.y * gs.z)
               + tNum * gs.x * gs.y * gs.z,
     den |-> tDen]

\* A Float32Array is read at an integer index inside it; any other key
\* yields undefined.
IsInteger(q) == q.num % q.den = 0
IntegerValue(q) == q.num \div q.den

DataLength(m) == m.grid_size.x * m.grid_size.y * m.grid_size.z * m.time_count

\* The index tuples the model follows through the fill: the corners of the
\* grid, at the first time indices and the last one.
Corners(n) == {0, n - 1}
ProbeIdx(n) == {i \in 0..(n - 1) : i <= MaxProbe \/ i = n - 1}

ProbeTuples(m) ==
    {[xi |-> a, yi |-> b, zi |-> c, ti |-> d] :
        a \in Corners(m.grid_size.x), b \in Corners(m.grid_size.y),
        c \in Corners(m.grid_size.z), d \in ProbeIdx(m.time_count)}

(***************************************************************************)
(* VolumeRenderer.updateAtlasTexture: for every index tuple it calls the   *)
(* sample function with the simulation time t = t_index * timestep as the  *)
(* last argument.  The result is, per tuple, the index the App's callback  *)
(* reads the data array at.                                                *)
(***************************************************************************)
updateAtlasTexture(m) ==
    [p \in ProbeTuples(m) |->
        SampleIndex(m.grid_size, p.xi, p.yi, p.zi,
                    p.ti * m.timestep.num, m.timestep.den)]


(***************************************************************************)
(* GLSL texts are sequences of tokens.  The presets of functionPresets     *)
(* begin and end with a line break, which String.trim removes.             *)
(***************************************************************************)
Whitespace == {"\n", " "}

functionPresets ==
    [n \in {"Sphere", "Pulsing Sphere", "Mandelbulb"} |->
        CASE n = "Sphere"         -> <<"\n", "return length(p);", "\n">>
          [] n = "Pulsing Sphere" -> <<"\n", "return length(p) + 0.1 * sin(t);", "\n">>
          [] n = "Mandelbulb"     -> <<"\n", "for (...) {...}", "\n", "return 0.5 * log(r) * r / dr * 10.0 + 1.0;", "\n">>]

RECURSIVE TrimStart(_)
TrimStart(text) ==
    IF text # <<>> /\ Head(text) \in Whitespace THEN TrimStart(Tail(text)) ELSE text

RECURSIVE TrimEnd(_)
TrimEnd(text) ==
    IF text # <<>> /\ text[Len(text)] \in Whitespace
    THEN TrimEnd(SubSeq(text, 1, Len(text) - 1))
    ELSE text

Trim(text) == TrimEnd(TrimStart(text))

\* What the operator can type into the GLSL text area: a body that
\* compiles, one that does not, and a preset retyped by hand.
BrokenGlsl == <<"return length(p">>
TypedTexts == {<<"return 1.0;">>, BrokenGlsl, Trim(functionPresets["Sphere"])}

\* Whether a text compiles as the body of sample(x, y, z, t).
Compiles(text) == text # BrokenGlsl

(***************************************************************************)
(* The options object (lines 271-291).                                     *)
(***************************************************************************)
InitialOptions ==
    [distance                        |-> FromInt(1),
     extinctionCoefficient           |-> FromInt(1),
     normalEpsilon                   |-> Hundredths(1),
     useVolumetricDepthTest          |-> FALSE,
     useExtinctionCoefficient        |-> TRUE,
     useValueAsExtinctionCoefficient |-> FALSE,
     usePointLights                  |-> FALSE,
     useDirectionalLights            |-> FALSE,
     useRandomStart                  |-> TRUE,
     renderMeanValue                 |-> FALSE,
     invertNormals                   |-> FALSE,
     renderNormals                   |-> FALSE,
     raySteps                        |-> 64,
     functionPreset                  |-> "Pulsing Sphere",
     useCustomFunction               |-> FALSE,
     customFunction                  |-> Null]

\* The values of the Ray Steps slider (2..256, step 1) the model uses.
RayStepValues == {2, 64, 256}

\* The values of the Time Scale slider (0..8) the model uses, in tenths.
TimescaleValues == {0, 10, 80}

\* The upper end of the Time Scale slider (line 294), in tenths.
TimescaleMax == 80

(***************************************************************************)
(* volumeRenderer.uniforms, as far as the GUI writes them.  Slider values  *)
(* of the plain numeric uniforms are kept in thousandths; every value is   *)
(* Null until the GUI or a texture load has written it.                    *)
(***************************************************************************)
\* The sliders bound directly to a uniform's value (lines 352-369, 390-395,
\* 467-468), each with its range in thousandths.
UniformSliders ==
    [minPaletteValue      |-> [min |-> 0, max |-> 3000],
     maxPaletteValue      |-> [min |-> 0, max |-> 3000],
     minCutoffValue       |-> [min |-> 0, max |-> 3000],
     maxCutoffValue       |-> [min |-> 0, max |-> 3000],
     cutoffFadeRange      |-> [min |-> 0, max |-> 1000],
     valueMultiplier      |-> [min |-> 0, max |-> 4000],
     extinctionMultiplier |-> [min |-> 0, max |-> 10000],
     alphaMultiplier      |-> [min |-> 0, max |-> 4000],
     normalEpsilon        |-> [min |-> 1, max |-> 100]]

InitialUniforms ==
    [minPaletteValue       |-> Null,
     maxPaletteValue       |-> Null,
     minCutoffValue        |-> Null,
     maxCutoffValue        |-> Null,
     cutoffFadeRange       |-> Null,
     valueMultiplier       |-> Null,
     extinctionMultiplier  |-> Null,
     alphaMultiplier       |-> Null,
     normalEpsilon         |-> Null,
     extinctionCoefficient |-> Null,
     palette               |-> Null,
     materialNeedsUpdate   |-> FALSE]

\* The palettes of the Palette control the model uses (line 337), and the
\* image each is loaded from (line 339).
palettes == <<"Viridis", "Rainbow", "Plasma">>

PaletteImage(name) ==
    CASE name = "Viridis" -> "./images/palettes/viridis.png"
      [] name = "Rainbow" -> "./images/palettes/rainbow.png"
      [] name = "Plasma"  -> "./images/palettes/plasma.png"

(***************************************************************************)
(* VolumeRenderer.updateMaterial(options).  The feature set it reads from  *)
(* the options; composing fails when the custom function is in use and     *)
(* does not compile, and then the previous program stays the active one.   *)
(***************************************************************************)
FeatureSet(o) ==
    [useVolumetricDepthTest          |-> o.useVolumetricDepthTest,
     useExtinctionCoefficient        |-> o.useExtinctionCoefficient,
     useValueAsExtinctionCoefficient |-> o.useValueAsExtinctionCoefficient,
     usePointLights                  |-> o.usePointLights,
     useDirectionalLights            |-> o.useDirectionalLights,
     useRandomStart                  |-> o.useRandomStart,
     renderMeanValue                 |-> o.renderMeanValue,
     invertNormals                   |-> o.invertNormals,
     renderNormals                   |-> o.renderNormals,
     raySteps                        |-> o.raySteps,
     useCustomFunction               |-> o.useCustomFunction,
     customFunction                  |-> o.customFunction]

ComposeFails(o) ==
    o.useCustomFunction /\ o.customFunction # Null /\ ~Compiles(o.customFunction[1])

updateMaterial(o) ==
    /\ updateMaterialCalls' = updateMaterialCalls + 1
    /\ lastMaterialArg' = <<o>>
    /\ lastUpdateFailed' = ComposeFails(o)
    /\ program' = IF ComposeFails(o) THEN program ELSE <<FeatureSet(o)>>


(***************************************************************************)
(* Delta time (line 503).  A timestamp difference of d units is            *)
(* d / UnitsPerMs ms, that is d / (1000 * UnitsPerMs) s, which is d units  *)
(* of delta time.                                                          *)
(***************************************************************************)
UnitsPerMs == 1000
UnitsPerSecond == 1000 * UnitsPerMs
MinDt == 1

\* Delta time without either clamp.
DeltaTimeNoClamp(last, time) ==
    IF last = Null THEN 0 ELSE time - last[1]

\* Delta time without the lower clamp.
DeltaTimeNoFloor(last, time) ==
    Min(UnitsPerSecond, IF last = Null THEN 0 ELSE time - last[1])

\* Delta time without the upper clamp.
DeltaTimeNoCeil(last, time) ==
    Max(MinDt, IF last = Null THEN 0 ELSE time - last[1])

\* Delta time with a truthiness test of the last timestamp, which takes a
\* timestamp of 0 for no timestamp.
DeltaTimeTruthy(last, time) ==
    Min(UnitsPerSecond,
        Max(MinDt, IF last = Null \/ last = <<0>> THEN 0 ELSE time - last[1]))

DeltaTime(last, time) ==
    Min(UnitsPerSecond, Max(MinDt, IF last = Null THEN 0 ELSE time - last[1]))

\* The host's frame timestamps the model uses: 0 ms, 1000 ms, 1250 ms, 5000 ms.
TimeStamps == {0, 1000 * UnitsPerMs, 1250 * UnitsPerMs, 5000 * UnitsPerMs}

\* Outcomes of Math.random the model uses.
RandomValues == {0, 1}

(***************************************************************************)
(* The initial state: the script is loaded, the load event has not fired.  *)
(***************************************************************************)
Init ==
    /\ pc = "idle"
    /\ visibilityData = Null
    /\ fetchFailed = FALSE
    /\ appConstructed = FALSE
    /\ loopStarted = FALSE
    /\ createAtlasCalls = 0
    /\ updateAtlasCalls = 0
    /\ atlasReads = Null
    /\ meta = sootVisibilityMeta
    /\ lastTime = Null
    /\ timescale = 10
    /\ timeValue = 0
    /\ randomValue = 0
    /\ spinningCubeVisible = FALSE
    /\ pointLightVisible = FALSE
    /\ options = InitialOptions
    /\ glslTextarea = <<>>
    /\ updateMaterialCalls = 0
    /\ lastMaterialArg = Null
    /\ program = Null
    /\ lastUpdateFailed = FALSE
    /\ optionsBefore = InitialOptions
    /\ frameCount = 0
    /\ frameIn = [last |-> Null, now |-> 0, time |-> 0, scale |-> 0]
    /\ dt = 0
    /\ frameRenders = <<>>
    /\ eventCount = 0
    /\ cur = Null
    /\ uniforms = InitialUniforms
    /\ paletteLoads = <<>>
    /\ paletteControl = palettes[1]
    /\ roundTrip = Null

bootVars == <<pc, visibilityData, fetchFailed>>
atlasVars == <<createAtlasCalls, updateAtlasCalls, atlasReads>>
appVars == <<appConstructed, loopStarted>>
frameVars == <<lastTime, timeValue, randomValue, frameCount, frameIn, dt, frameRenders>>
materialVars == <<updateMaterialCalls, lastMaterialArg, program, lastUpdateFailed>>
guiVars == <<options, glslTextarea, optionsBefore, eventCount, timescale,
             spinningCubeVisible, pointLightVisible>>
uniformVars == <<uniforms, paletteLoads, paletteControl, roundTrip>>

(***************************************************************************)
(* App._init (lines 17-41).                                                *)
(***************************************************************************)
\* The window's load event: fetch('soot_visibility.bytes') is started.
LoadEvent ==
    /\ pc = "idle"
    /\ pc' = "fetching"
    /\ UNCHANGED <<visibilityData, fetchFailed, atlasVars, appVars, meta,
                   frameVars, materialVars, guiVars, cur, uniformVars>>

\* The response arrived and its blob was read.
FetchFulfilled ==
    /\ pc = "fetching"
    /\ pc' = "decompressing"
    /\ UNCHANGED <<visibilityData, fetchFailed, atlasVars, appVars, meta,
                   frameVars, materialVars, guiVars, cur, uniformVars>>

\* fetch or response.blob() rejected.
FetchRejected ==
    /\ pc = "fetching"
    /\ pc' = "settled"
    /\ fetchFailed' = TRUE
    /\ UNCHANGED <<visibilityData, atlasVars, appVars, meta,
                   frameVars, materialVars, guiVars, cur, uniformVars>>

\* The stream was decompressed and the bytes were scaled into visibilityData.
DecompressFulfilled ==
    /\ pc = "decompressing"
    /\ pc' = "settled"
    /\ visibilityData' = <<"data">>
    /\ UNCHANGED <<fetchFailed, atlasVars, appVars, meta,
                   frameVars, materialVars, guiVars, cur, uniformVars>>

\* Decompressing the blob rejected.
DecompressRejected ==
    /\ pc = "decompressing"
    /\ pc' = "settled"
    /\ fetchFailed' = TRUE
    /\ UNCHANGED <<visibilityData, atlasVars, appVars, meta,
                   frameVars, materialVars, guiVars, cur, uniformVars>>

(***************************************************************************)
(* The finally callback: new App(visibilityData) (lines 36-39, 54-489).    *)
(***************************************************************************)
\* A constructor that creates and fills the atlas whatever it was given.
FillsAtlasAlways(data) == TRUE

\* The constructor's test before it creates and fills the atlas (line 119).
FillsAtlas(data) == data # Null

\* An App that is also started again after it was started.
FinallyRunsAgain == pc \in {"settled", "started"}

\* The finally callback runs once, when the promise chain has settled.
FinallyRuns == pc = "settled"

StartApp ==
    /\ FinallyRuns
    /\ pc' = "started"
    /\ pointLightVisible' = FALSE
    /\ spinningCubeVisible' = FALSE
    /\ IF FillsAtlas(visibilityData)
       THEN /\ createAtlasCalls' = createAtlasCalls + 1
            /\ updateAtlasCalls' = updateAtlasCalls + 1
            /\ atlasReads' = updateAtlasTexture(meta)
       ELSE UNCHANGED atlasVars
    /\ options' = InitialOptions
    /\ glslTextarea' = Trim(functionPresets[InitialOptions.functionPreset])
    /\ lastTime' = Null
    /\ paletteLoads' = Append(paletteLoads, [name |-> palettes[1], state |-> "pending"])
    /\ paletteControl' = palettes[1]
    /\ appConstructed' = TRUE
    /\ loopStarted' = TRUE
    /\ UNCHANGED <<visibilityData, fetchFailed, meta, timescale, timeValue,
                   randomValue, frameCount, frameIn, dt, frameRenders,
                   materialVars, optionsBefore, eventCount, cur, uniforms,
                   roundTrip>>

(***************************************************************************)
(* App.#update(time) (lines 501-529).                                      *)
(***************************************************************************)
\* The volume renderer is an ordinary object of the scene: it is drawn by
\* every render of the scene it is in, and does not hide itself.
VolumeRendererVisible == TRUE

\* The objects of the scene a render draws: those added to the scene (lines
\* 64-82, 112) that are visible.  The App never hides the volume renderer.
SceneDrawn ==
    {"axes"}
        \cup (IF VolumeRendererVisible THEN {"volumeRenderer"} ELSE {})
        \cup (IF spinningCubeVisible THEN {"spinningCube"} ELSE {})
        \cup (IF pointLightVisible THEN {"pointLight"} ELSE {})

\* renderer.render(scene, camera) into a target, with the uniforms as they
\* are at that moment.
Render(target, time, random) ==
    [target |-> target, drawn |-> SceneDrawn, time |-> time, random |-> random]

\* A frame update that renders before it advances the uniforms.
UpdateRendersFirst(time) ==
    /\ loopStarted
    /\ frameCount < MaxFrames
    /\ frameCount + eventCount < MaxSteps
    /\ dt' = DeltaTime(lastTime, time)
    /\ lastTime' = <<time>>
    /\ frameRenders' = <<Render("screen", timeValue, randomValue)>>
    /\ timeValue' = timeValue + dt' * timescale
    /\ \E r \in RandomValues : randomValue' = r
    /\ frameIn' = [last |-> lastTime, now |-> time, time |-> timeValue, scale |-> timescale]
    /\ frameCount' = frameCount + 1
    /\ UNCHANGED <<bootVars, atlasVars, appVars, meta, materialVars, guiVars, cur, uniformVars>>

Update(time) ==
    /\ loopStarted
    /\ frameCount < MaxFrames
    /\ frameCount + eventCount < MaxSteps
    /\ dt' = DeltaTime(lastTime, time)
    /\ lastTime' = <<time>>
    /\ timeValue' = timeValue + dt' * timescale
    /\ \E r \in RandomValues : randomValue' = r
    /\ frameRenders' =
        (IF spinningCubeVisible
         THEN <<Render("renderTarget", timeValue', randomValue')>>
         ELSE <<>>) \o <<Render("screen", timeValue', randomValue')>>
    /\ frameIn' = [last |-> lastTime, now |-> time, time |-> timeValue, scale |-> timescale]
    /\ frameCount' = frameCount + 1
    /\ UNCHANGED <<bootVars, atlasVars, appVars, meta, materialVars, guiVars, cur, uniformVars>>

Frame == \E time \in TimeStamps : Update(time)


(***************************************************************************)
(* The lil.GUI controls.  A control's onChange handler runs after lil.GUI  *)
(* has written the new value, which differs from the old one, to the       *)
(* object the control is bound to.                                         *)
(***************************************************************************)
\* Every GUI event: the panel exists once the App is constructed.
GuiEvent ==
    /\ appConstructed
    /\ eventCount < MaxEvents
    /\ frameCount + eventCount < MaxSteps
    /\ eventCount' = eventCount + 1
    /\ optionsBefore' = options

\* Time Scale (lines 294-296): bound to this.#timescale, no handler.
SetTimescale(value) ==
    /\ GuiEvent
    /\ value # timescale
    /\ timescale' = value
    /\ UNCHANGED <<bootVars, atlasVars, appVars, meta, frameVars, materialVars,
                   options, glslTextarea, spinningCubeVisible,
                   pointLightVisible, cur, uniformVars>>

\* Presets (lines 303-313).
OnChangeFunctionPreset(name) ==
    /\ GuiEvent
    /\ name # options.functionPreset
    /\ LET value == Trim(functionPresets[name]) IN
        /\ glslTextarea' = value
        /\ options' = [options EXCEPT !.functionPreset = name,
                                      !.customFunction = <<value>>,
                                      !.useCustomFunction = TRUE]
    /\ updateMaterial(options')
    /\ UNCHANGED <<bootVars, atlasVars, appVars, meta, frameVars, timescale,
                   spinningCubeVisible, pointLightVisible, cur, uniformVars>>

\* An input handler that leaves the custom function switched on.
OnInputGlslKeepsFunction(text) ==
    /\ GuiEvent
    /\ text # glslTextarea
    /\ glslTextarea' = text
    /\ UNCHANGED <<bootVars, atlasVars, appVars, meta, frameVars, timescale,
                   options, materialVars, spinningCubeVisible,
                   pointLightVisible, cur, uniformVars>>

\* The text area's input event (lines 314-321).
OnInputGlsl(text) ==
    /\ GuiEvent
    /\ text # glslTextarea
    /\ glslTextarea' = text
    /\ IF options.useCustomFunction
       THEN /\ options' = [options EXCEPT !.customFunction = Null,
                                          !.useCustomFunction = FALSE]
            /\ updateMaterial(options')
       ELSE UNCHANGED <<options, materialVars>>
    /\ UNCHANGED <<bootVars, atlasVars, appVars, meta, frameVars, timescale,
                   spinningCubeVisible, pointLightVisible, cur, uniformVars>>

\* Use Function (lines 323-333).
OnChangeUseCustomFunction ==
    /\ GuiEvent
    /\ LET value == ~options.useCustomFunction IN
        options' = [options EXCEPT !.useCustomFunction = value,
                                   !.customFunction = IF value THEN <<glslTextarea>>
                                                      ELSE Null]
    /\ updateMaterial(options')
    /\ UNCHANGED <<bootVars, atlasVars, appVars, meta, frameVars, timescale,
                   glslTextarea, spinningCubeVisible, pointLightVisible, cur, uniformVars>>

\* A Depth Test handler that leaves the spinning cube as it is.
OnChangeDepthTestKeepsCube ==
    /\ GuiEvent
    /\ options' = [options EXCEPT !.useVolumetricDepthTest = ~@]
    /\ updateMaterial(options')
    /\ UNCHANGED <<bootVars, atlasVars, appVars, meta, frameVars, timescale,
                   glslTextarea, spinningCubeVisible, pointLightVisible, cur,
                   uniformVars>>

\* Depth Test (lines 399-405).
OnChangeDepthTest ==
    /\ GuiEvent
    /\ options' = [options EXCEPT !.useVolumetricDepthTest = ~@]
    /\ spinningCubeVisible' = options'.useVolumetricDepthTest
    /\ updateMaterial(options')
    /\ UNCHANGED <<bootVars, atlasVars, appVars, meta, frameVars, timescale,
                   glslTextarea, pointLightVisible, cur, uniformVars>>

\* Mean Value (lines 406-411).
OnChangeMeanValue ==
    /\ GuiEvent
    /\ options' = [options EXCEPT !.renderMeanValue = ~@]
    /\ updateMaterial(options')
    /\ UNCHANGED <<bootVars, atlasVars, appVars, meta, frameVars, timescale,
                   glslTextarea, spinningCubeVisible, pointLightVisible, cur, uniformVars>>

\* Extinction Coefficient (lines 412-417).
OnChangeUseExtinction ==
    /\ GuiEvent
    /\ options' = [options EXCEPT !.useExtinctionCoefficient = ~@]
    /\ updateMaterial(options')
    /\ UNCHANGED <<bootVars, atlasVars, appVars, meta, frameVars, timescale,
                   glslTextarea, spinningCubeVisible, pointLightVisible, cur, uniformVars>>

\* Value as Extinction (lines 418-423).
OnChangeValueAsExtinction ==
    /\ GuiEvent
    /\ options' = [options EXCEPT !.useValueAsExtinctionCoefficient = ~@]
    /\ updateMaterial(options')
    /\ UNCHANGED <<bootVars, atlasVars, appVars, meta, frameVars, timescale,
                   glslTextarea, spinningCubeVisible, pointLightVisible, cur, uniformVars>>

\* Point Lights (lines 424-430).
OnChangePointLights ==
    /\ GuiEvent
    /\ options' = [options EXCEPT !.usePointLights = ~@]
    /\ pointLightVisible' = options'.usePointLights
    /\ updateMaterial(options')
    /\ UNCHANGED <<bootVars, atlasVars, appVars, meta, frameVars, timescale,
                   glslTextarea, spinningCubeVisible, cur, uniformVars>>

\* Directional Lights (lines 431-436).
OnChangeDirectionalLights ==
    /\ GuiEvent
    /\ options' = [options EXCEPT !.useDirectionalLights = ~@]
    /\ updateMaterial(options')
    /\ UNCHANGED <<bootVars, atlasVars, appVars, meta, frameVars, timescale,
                   glslTextarea, spinningCubeVisible, pointLightVisible, cur, uniformVars>>

\* Random Start (lines 437-442).
OnChangeRandomStart ==
    /\ GuiEvent
    /\ options' = [options EXCEPT !.useRandomStart = ~@]
    /\ updateMaterial(options')
    /\ UNCHANGED <<bootVars, atlasVars, appVars, meta, frameVars, timescale,
                   glslTextarea, spinningCubeVisible, pointLightVisible, cur, uniformVars>>

\* Invert normals (lines 443-448).
OnChangeInvertNormals ==
    /\ GuiEvent
    /\ options' = [options EXCEPT !.invertNormals = ~@]
    /\ updateMaterial(options')
    /\ UNCHANGED <<bootVars, atlasVars, appVars, meta, frameVars, timescale,
                   glslTextarea, spinningCubeVisible, pointLightVisible, cur, uniformVars>>

\* Render normals (lines 449-454).
OnChangeRenderNormals ==
    /\ GuiEvent
    /\ options' = [options EXCEPT !.renderNormals = ~@]
    /\ updateMaterial(options')
    /\ UNCHANGED <<bootVars, atlasVars, appVars, meta, frameVars, timescale,
                   glslTextarea, spinningCubeVisible, pointLightVisible, cur, uniformVars>>

\* A Ray Steps handler that does not rebuild the material.
OnChangeRayStepsNoUpdate(value) ==
    /\ GuiEvent
    /\ value # options.raySteps
    /\ options' = [options EXCEPT !.raySteps = value]
    /\ UNCHANGED <<bootVars, atlasVars, appVars, meta, frameVars, timescale,
                   materialVars, glslTextarea, spinningCubeVisible,
                   pointLightVisible, cur, uniformVars>>

\* Ray Steps (lines 458-463).
OnChangeRaySteps(value) ==
    /\ GuiEvent
    /\ value # options.raySteps
    /\ options' = [options EXCEPT !.raySteps = value]
    /\ updateMaterial(options')
    /\ UNCHANGED <<bootVars, atlasVars, appVars, meta, frameVars, timescale,
                   glslTextarea, spinningCubeVisible, pointLightVisible, cur, uniformVars>>

(***************************************************************************)
(* The numeric controls.                                                   *)
(***************************************************************************)
\* A slider bound directly to a uniform's value (lines 352-369, 390-395,
\* 467-468): the control writes the value, and there is no handler.
SetUniform(name, value) ==
    /\ GuiEvent
    /\ uniforms[name] # <<value>>
    /\ uniforms' = [uniforms EXCEPT ![name] = <<value>>]
    /\ UNCHANGED <<bootVars, atlasVars, appVars, meta, frameVars, timescale,
                   materialVars, options, glslTextarea, spinningCubeVisible,
                   pointLightVisible, cur, paletteLoads, paletteControl,
                   roundTrip>>

\* The constant of the two opacity handlers (lines 377, 385, 386).
OpacityConstant == Thousandths(3912)

\* The range of both opacity sliders, in steps of 0.01 (lines 374, 382),
\* and the double at each position.
SliderMin == 10
SliderMax == 1000
SliderValue == [k \in SliderMin..SliderMax |-> Hundredths(k)]

\* The body of the Extinction Coefficient handler (lines 376-380), run after
\* the control has written the value to options.extinctionCoefficient.
CoefficientChanged(o, u, value) ==
    [options  |-> [o EXCEPT !.extinctionCoefficient = value,
                            !.distance = FDiv(OpacityConstant, value)],
     uniforms |-> [u EXCEPT !.extinctionCoefficient = <<value>>]]

\* A Visible Range handler that divides the other way round.
DistanceChangedInverted(o, u, value) ==
    [options  |-> [o EXCEPT !.distance = value,
                            !.extinctionCoefficient = FDiv(value, OpacityConstant)],
     uniforms |-> [u EXCEPT !.extinctionCoefficient =
                                <<FDiv(value, OpacityConstant)>>]]

\* The body of the Visible Range handler (lines 384-388), run after the
\* control has written the value to options.distance.
DistanceChanged(o, u, value) ==
    [options  |-> [o EXCEPT !.distance = value,
                            !.extinctionCoefficient = FDiv(OpacityConstant, value)],
     uniforms |-> [u EXCEPT !.extinctionCoefficient =
                                <<FDiv(OpacityConstant, value)>>]]

opacityFrame ==
    <<bootVars, atlasVars, appVars, meta, frameVars, timescale, glslTextarea,
      spinningCubeVisible, pointLightVisible, cur, paletteLoads,
      paletteControl, roundTrip>>

\* An Extinction Coefficient handler that also rebuilds the material.
OnChangeExtinctionCoefficientRebuilds(k) ==
    /\ GuiEvent
    /\ SliderValue[k] # options.extinctionCoefficient
    /\ \E after \in {CoefficientChanged(options, uniforms, SliderValue[k])} :
        /\ options' = after.options
        /\ uniforms' = after.uniforms
    /\ updateMaterial(options')
    /\ UNCHANGED opacityFrame

\* Extinction Coefficient (lines 374-380), moved to k / 100.
OnChangeExtinctionCoefficient(k) ==
    /\ GuiEvent
    /\ SliderValue[k] # options.extinctionCoefficient
    /\ \E after \in {CoefficientChanged(options, uniforms, SliderValue[k])} :
        /\ options' = after.options
        /\ uniforms' = after.uniforms
    /\ UNCHANGED <<opacityFrame, materialVars>>

\* Visible Range (lines 382-388), moved to k / 100.
OnChangeDistance(k) ==
    /\ GuiEvent
    /\ SliderValue[k] # options.distance
    /\ \E after \in {DistanceChanged(options, uniforms, SliderValue[k])} :
        /\ options' = after.options
        /\ uniforms' = after.uniforms
    /\ UNCHANGED <<opacityFrame, materialVars>>

\* The positions the two opacity sliders are moved to: both ends of the
\* range and one position in between.
OpacityPositions == {SliderMin, 41, SliderMax}

(***************************************************************************)
(* The palette.                                                            *)
(***************************************************************************)
paletteFrame ==
    <<bootVars, atlasVars, appVars, meta, frameVars, timescale, materialVars,
      options, glslTextarea, spinningCubeVisible, pointLightVisible, cur,
      roundTrip>>

\* setPalette (lines 338-344): starts a load; its callback runs later.
setPalette(name) ==
    paletteLoads' = Append(paletteLoads, [name |-> name, state |-> "pending"])

\* A Palette handler that binds the palette at once.
OnChangePaletteBindsAtOnce(name) ==
    /\ GuiEvent
    /\ name # paletteControl
    /\ paletteControl' = name
    /\ setPalette(name)
    /\ uniforms' = [uniforms EXCEPT !.palette = <<PaletteImage(name)>>]
    /\ UNCHANGED paletteFrame

\* Palette (lines 347-350).
OnChangePalette(name) ==
    /\ GuiEvent
    /\ name # paletteControl
    /\ paletteControl' = name
    /\ setPalette(name)
    /\ UNCHANGED <<paletteFrame, uniforms>>

\* The callback of a load (lines 339-343): the image has been loaded.
PaletteLoaded(i) ==
    /\ paletteLoads[i].state = "pending"
    /\ paletteLoads' = [paletteLoads EXCEPT ![i].state = "loaded"]
    /\ uniforms' = [uniforms EXCEPT
                        !.palette = <<PaletteImage(paletteLoads[i].name)>>,
                        !.materialNeedsUpdate = TRUE]
    /\ UNCHANGED <<paletteFrame, paletteControl, optionsBefore, eventCount>>

\* A load fails: setPalette passes no error callback (line 339).
PaletteLoadFailed(i) ==
    /\ paletteLoads[i].state = "pending"
    /\ paletteLoads' = [paletteLoads EXCEPT ![i].state = "failed"]
    /\ UNCHANGED <<paletteFrame, paletteControl, uniforms, optionsBefore,
                   eventCount>>

TimeScale == \E value \in TimescaleValues : SetTimescale(value)
Presets == \E name \in DOMAIN functionPresets : OnChangeFunctionPreset(name)
GlslInput == \E text \in TypedTexts : OnInputGlsl(text)
RaySteps == \E value \in RayStepValues : OnChangeRaySteps(value)
UniformSlider ==
    \E name \in DOMAIN UniformSliders :
        \E value \in {UniformSliders[name].min, UniformSliders[name].max} :
            SetUniform(name, value)
ExtinctionCoefficient == \E k \in OpacityPositions : OnChangeExtinctionCoefficient(k)
VisibleRange == \E k \in OpacityPositions : OnChangeDistance(k)
Palette == \E i \in DOMAIN palettes : OnChangePalette(palettes[i])
LoadDone == \E i \in DOMAIN paletteLoads : PaletteLoaded(i)
LoadFails == \E i \in DOMAIN paletteLoads : PaletteLoadFailed(i)

Next ==
    \/ LoadEvent
    \/ FetchFulfilled
    \/ FetchRejected
    \/ DecompressFulfilled
    \/ DecompressRejected
    \/ StartApp
    \/ Frame
    \/ TimeScale
    \/ Presets
    \/ GlslInput
    \/ OnChangeUseCustomFunction
    \/ OnChangeDepthTest
    \/ OnChangeMeanValue
    \/ OnChangeUseExtinction
    \/ OnChangeValueAsExtinction
    \/ OnChangePointLights
    \/ OnChangeDirectionalLights
    \/ OnChangeRandomStart
    \/ OnChangeInvertNormals
    \/ OnChangeRenderNormals
    \/ RaySteps

Spec == Init /\ [][Next]_vars

(***************************************************************************)
(* The numeric controls and the palette: the bootstrap, the controls that  *)
(* write a uniform or an option without a shader option among them, the    *)
(* palette loads, and the Use Function switch, so that there is a program  *)
(* these controls could disturb.                                           *)
(***************************************************************************)
NextControls ==
    \/ LoadEvent
    \/ FetchFulfilled
    \/ FetchRejected
    \/ DecompressFulfilled
    \/ DecompressRejected
    \/ StartApp
    \/ TimeScale
    \/ OnChangeUseCustomFunction
    \/ UniformSlider
    \/ ExtinctionCoefficient
    \/ VisibleRange
    \/ Palette
    \/ LoadDone
    \/ LoadFails

SpecControls == Init /\ [][NextControls]_vars


(***************************************************************************)
(* The conversion between extinction coefficient and visible range as a    *)
(* round trip: one of the two opacity handlers is run on a slider          *)
(* position, and the value it derives for the other control is then fed to *)
(* that control's handler.  Every position of the slider is tried.         *)
(***************************************************************************)
convertFrame ==
    <<bootVars, atlasVars, appVars, meta, frameVars, materialVars, timescale,
      glslTextarea, optionsBefore, eventCount, spinningCubeVisible,
      pointLightVisible, cur, paletteLoads, paletteControl>>

ConvertCoefficient(k) ==
    /\ roundTrip = Null
    /\ \E after \in {CoefficientChanged(options, uniforms, SliderValue[k])} :
        /\ options' = after.options
        /\ uniforms' = after.uniforms
    /\ roundTrip' = <<[kind |-> "coefficient", start |-> SliderValue[k], stage |-> "there"]>>
    /\ UNCHANGED convertFrame

FeedDistance ==
    /\ roundTrip # Null
    /\ roundTrip[1].kind = "coefficient"
    /\ roundTrip[1].stage = "there"
    /\ \E after \in {DistanceChanged(options, uniforms, options.distance)} :
        /\ options' = after.options
        /\ uniforms' = after.uniforms
    /\ roundTrip' = <<[roundTrip[1] EXCEPT !.stage = "back"]>>
    /\ UNCHANGED convertFrame

ConvertDistance(k) ==
    /\ roundTrip = Null
    /\ \E after \in {DistanceChanged(options, uniforms, SliderValue[k])} :
        /\ options' = after.options
        /\ uniforms' = after.uniforms
    /\ roundTrip' = <<[kind |-> "distance", start |-> SliderValue[k], stage |-> "there"]>>
    /\ UNCHANGED convertFrame

FeedCoefficient ==
    /\ roundTrip # Null
    /\ roundTrip[1].kind = "distance"
    /\ roundTrip[1].stage = "there"
    /\ \E after \in {CoefficientChanged(options, uniforms, options.extinctionCoefficient)} :
        /\ options' = after.options
        /\ uniforms' = after.uniforms
    /\ roundTrip' = <<[roundTrip[1] EXCEPT !.stage = "back"]>>
    /\ UNCHANGED convertFrame

InitConvert == Init

NextConvert ==
    \/ \E k \in SliderMin..SliderMax : ConvertCoefficient(k)
    \/ FeedDistance
    \/ \E k \in SliderMin..SliderMax : ConvertDistance(k)
    \/ FeedCoefficient

SpecConvert == InitConvert /\ [][NextConvert]_vars

(***************************************************************************)
(* The index expression as a pure function: grid dimensions and time       *)
(* counts are drawn from 1..MaxDim, and the expression is evaluated with   *)
(* the time index as its last argument.                                    *)
(***************************************************************************)
Metas ==
    {[time_count |-> tc,
      timestep   |-> [num |-> TimestepNum, den |-> TimestepDen],
      grid_size  |-> [x |-> gx, y |-> gy, z |-> gz]] :
        tc \in 1..MaxDim, gx \in 1..MaxDim, gy \in 1..MaxDim, gz \in 1..MaxDim}

IndexTuples(m) ==
    {[xi |-> a, yi |-> b, zi |-> c, ti |-> d] :
        a \in 0..(m.grid_size.x - 1), b \in 0..(m.grid_size.y - 1),
        c \in 0..(m.grid_size.z - 1), d \in 0..(m.time_count - 1)}

FlatIndexOf(m, p) == SampleIndex(m.grid_size, p.xi, p.yi, p.zi, p.ti, 1)

InitIndex ==
    /\ pc = "idle"
    /\ visibilityData = Null
    /\ fetchFailed = FALSE
    /\ appConstructed = FALSE
    /\ loopStarted = FALSE
    /\ createAtlasCalls = 0
    /\ updateAtlasCalls = 0
    /\ atlasReads = Null
    /\ meta \in Metas
    /\ lastTime = Null
    /\ timescale = 10
    /\ timeValue = 0
    /\ randomValue = 0
    /\ spinningCubeVisible = FALSE
    /\ pointLightVisible = FALSE
    /\ options = InitialOptions
    /\ glslTextarea = <<>>
    /\ updateMaterialCalls = 0
    /\ lastMaterialArg = Null
    /\ program = Null
    /\ lastUpdateFailed = FALSE
    /\ optionsBefore = InitialOptions
    /\ frameCount = 0
    /\ frameIn = [last |-> Null, now |-> 0, time |-> 0, scale |-> 0]
    /\ dt = 0
    /\ frameRenders = <<>>
    /\ eventCount = 0
    /\ cur = Null
    /\ uniforms = InitialUniforms
    /\ paletteLoads = <<>>
    /\ paletteControl = palettes[1]
    /\ roundTrip = Null

EvalIndex(p) ==
    /\ cur' = <<[tuple |-> p, index |-> FlatIndexOf(meta, p)]>>
    /\ UNCHANGED <<bootVars, atlasVars, appVars, meta, frameVars, materialVars,
                   guiVars, uniformVars>>

NextIndex == \E p \in IndexTuples(meta) : EvalIndex(p)

SpecIndex == InitIndex /\ [][NextIndex]_vars


(***************************************************************************)
(* Delta time.                                                             *)
(***************************************************************************)
FirstFrameRan == frameCount > 0 /\ frameIn.last = Null
LaterFrameRan == frameCount > 0 /\ frameIn.last # Null

\* C1 (as claimed): on the first frame, when no previous frame timestamp
\* has been recorded, the delta time is 0 and simulation time does not
\* advance.
C1_FirstFrameDtZero ==
    FirstFrameRan => (dt = 0 /\ timeValue = frameIn.time)

\* C1 (amended): on the first frame, when no previous frame timestamp has
\* been recorded, the raw delta 0 is clamped to the lower bound: the delta
\* time is 1e-6 s and simulation time advances by 1e-6 s times the time
\* scale.
C1_FirstFrameDtIsLowerClamp ==
    FirstFrameRan => (dt = 1 /\ timeValue = frameIn.time + 1 * frameIn.scale)

C1_Witness ==
    /\ FirstFrameRan
    /\ frameCount = 1
    /\ frameIn.scale = 80
    /\ timeValue = 80

\* C2: for every frame and every sequence of host timestamps (equal,
\* decreasing or far apart) the delta time lies in [1e-6 s, 1 s]: never
\* zero, never negative, never more than one second.
C2_DtInRange ==
    frameCount > 0 => (dt > 0 /\ dt >= 1 /\ dt <= 1000 * UnitsPerMs)

\* Equal, decreasing and far-apart timestamps are all met.
C2_Witness ==
    /\ LaterFrameRan
    /\ frameIn.now < frameIn.last[1]
    /\ dt = 1

\* The value (now - last) / 1000 s clamped to [1e-6 s, 1 s], in units of delta time.
ClampedSeconds(last, now) ==
    LET d == now - last IN
    IF d < 1 THEN 1 ELSE IF d > 1000 * UnitsPerMs THEN 1000 * UnitsPerMs ELSE d

\* C3: for every frame after the first the delta time is (now - last)/1000
\* clamped to [1e-6, 1], where last is the timestamp of the immediately
\* preceding frame, also when that timestamp is 0: last = 1000 ms,
\* now = 1250 ms gives 0.25 s, and last = 0, now = 5000 ms gives 1 s.
C3_DtFromPreviousFrame ==
    /\ [](LaterFrameRan =>
            /\ dt = ClampedSeconds(frameIn.last[1], frameIn.now)
            /\ (frameIn.last[1] = 1000 * UnitsPerMs /\ frameIn.now = 1250 * UnitsPerMs
                    => 4 * dt = 1000 * UnitsPerMs)
            /\ (frameIn.last[1] = 0 /\ frameIn.now = 5000 * UnitsPerMs
                    => dt = 1000 * UnitsPerMs))
    /\ [][frameCount' = frameCount + 1 /\ frameCount > 0
            => frameIn'.last = <<frameIn.now>>]_vars

C3_Witness ==
    /\ LaterFrameRan
    /\ frameIn.last = <<0>>
    /\ frameIn.now = 5000 * UnitsPerMs
    /\ dt = 1000 * UnitsPerMs

(***************************************************************************)
(* The atlas fill's reads of the input data.                               *)
(***************************************************************************)
\* The flat index of an index tuple.
FlatIndex(m, p) ==
    p.yi + p.zi * m.grid_size.y + p.xi * m.grid_size.y * m.grid_size.z
         + p.ti * m.grid_size.x * m.grid_size.y * m.grid_size.z

\* C4: when the atlas fill calls the sample callback for an index tuple,
\* with t = t_index * timestep as the last argument, the callback reads the
\* data array at exactly the tuple's flat index, an integer inside the
\* array.
C4_CallbackReadsFlatIndex ==
    updateAtlasCalls > 0 =>
        \A p \in DOMAIN atlasReads :
            /\ IsInteger(atlasReads[p])
            /\ IntegerValue(atlasReads[p]) = FlatIndex(meta, p)
            /\ IntegerValue(atlasReads[p]) \in 0..(DataLength(meta) - 1)

\* C5: for all positive grid dimensions and time counts the flat index
\* formula is a bijection from the index tuples onto
\* 0 .. gridSize.x * gridSize.y * gridSize.z * timeCount - 1.
C5_FlatIndexBijection ==
    LET tuples == IndexTuples(meta)
        image  == {IntegerValue(FlatIndexOf(meta, p)) : p \in tuples}
    IN  /\ \A p \in tuples : IsInteger(FlatIndexOf(meta, p))
        /\ image = 0..(DataLength(meta) - 1)
        /\ Cardinality(image) = Cardinality(tuples)
        /\ cur # Null => cur[1].index.num = FlatIndex(meta, cur[1].tuple)

C5_Witness ==
    /\ cur # Null
    /\ meta.grid_size = [x |-> 2, y |-> 3, z |-> 1]
    /\ meta.time_count = 3
    /\ cur[1].tuple = [xi |-> 1, yi |-> 2, zi |-> 0, ti |-> 2]
    /\ cur[1].index.num = 17


(***************************************************************************)
(* Compile failures of the custom function.                                *)
(***************************************************************************)
\* C6: if the custom function passed to updateMaterial fails to compile,
\* the previously valid program remains the active one and the invalid
\* configuration is not applied: the configuration in effect, the
\* useCustomFunction and customFunction options included, is the one that
\* was valid before the change.
C6_FailedCompileKeepsConfiguration ==
    lastUpdateFailed =>
        /\ options.useCustomFunction = optionsBefore.useCustomFunction
        /\ options.customFunction = optionsBefore.customFunction
        /\ FeatureSet(options) = FeatureSet(optionsBefore)

(***************************************************************************)
(* The bootstrap and the atlas.                                            *)
(***************************************************************************)
\* C7: if fetching or decompressing the dataset fails, the App is still
\* constructed and its frame loop still runs; createAtlasTexture and
\* updateAtlasTexture are never called on that path, and the failure is not
\* fatal.
C7_FailedFetchStillStarts ==
    fetchFailed =>
        /\ visibilityData = Null
        /\ pc \in {"settled", "started"}
        /\ pc = "settled" => ENABLED StartApp
        /\ pc = "started" =>
            /\ appConstructed
            /\ loopStarted
            /\ createAtlasCalls = 0
            /\ updateAtlasCalls = 0
            /\ atlasReads = Null

C7_Witness ==
    /\ fetchFailed
    /\ pc = "started"
    /\ frameCount = 2
    /\ createAtlasCalls = 0

\* C8: while the dataset has not yet been delivered (the fetch is still
\* pending) the renderer is drawable: the App exists and its frame loop
\* draws frames against a zero-filled atlas.
C8_DrawableWhilePending ==
    pc \in {"fetching", "decompressing"} => (appConstructed /\ loopStarted)

\* C9: the atlas is filled at most once, and the fill has completed before
\* the first frame is drawn: no frame update runs before the frame loop is
\* started, and nothing calls createAtlasTexture or updateAtlasTexture once
\* it is started or during a frame update.
C9_FillOnceBeforeFrames ==
    /\ [](/\ createAtlasCalls <= 1
          /\ updateAtlasCalls <= 1
          /\ frameCount > 0 => loopStarted
          /\ (loopStarted /\ visibilityData # Null) => updateAtlasCalls = 1)
    /\ [][loopStarted => UNCHANGED atlasVars]_vars
    /\ [][frameCount' # frameCount => UNCHANGED atlasVars]_vars

C9_Witness ==
    /\ updateAtlasCalls = 1
    /\ createAtlasCalls = 1
    /\ frameCount = 2

(***************************************************************************)
(* Shader-affecting options.                                               *)
(***************************************************************************)
\* C10: every GUI event that changes a shader-affecting option calls
\* updateMaterial with the new values before its handler returns; so after
\* any such events the values last passed to updateMaterial are the current
\* options, in every state a frame can be drawn in.
C10_OptionChangesReachUpdateMaterial ==
    /\ [](updateMaterialCalls > 0 =>
            FeatureSet(lastMaterialArg[1]) = FeatureSet(options))
    /\ [][FeatureSet(options') # FeatureSet(options) =>
            /\ updateMaterialCalls' = updateMaterialCalls + 1
            /\ lastMaterialArg' = <<options'>>]_vars

C10_Witness ==
    /\ updateMaterialCalls = 2
    /\ frameCount > 0
    /\ options.raySteps = 256
    /\ options.useCustomFunction
    /\ FeatureSet(lastMaterialArg[1]) = FeatureSet(options)

(***************************************************************************)
(* The numeric settings.                                                   *)
(***************************************************************************)
NumericSettings ==
    <<uniforms.minPaletteValue, uniforms.maxPaletteValue,
      uniforms.minCutoffValue, uniforms.maxCutoffValue,
      uniforms.cutoffFadeRange, uniforms.valueMultiplier,
      uniforms.extinctionCoefficient, uniforms.extinctionMultiplier,
      uniforms.alphaMultiplier, uniforms.normalEpsilon,
      options.extinctionCoefficient, options.distance, timescale>>

\* C11: a change of a pure numeric setting (a palette or cutoff value, the
\* value multiplier, the extinction coefficient, the visible range, the
\* extinction or alpha multiplier, the normal epsilon, the time scale) never
\* calls updateMaterial: the program and the feature flags are as before.
C11_NumericSettingsKeepProgram ==
    [][NumericSettings' # NumericSettings =>
        /\ UNCHANGED materialVars
        /\ FeatureSet(options') = FeatureSet(options)]_vars

C11_Witness ==
    /\ program # Null
    /\ updateMaterialCalls = 1
    /\ optionsBefore.useCustomFunction
    /\ options.extinctionCoefficient = SliderValue[41]
    /\ uniforms.extinctionCoefficient = <<SliderValue[41]>>
    /\ optionsBefore.extinctionCoefficient # SliderValue[41]

(***************************************************************************)
(* The renders of a frame.                                                 *)
(***************************************************************************)
RenderTargets(renders) == [i \in DOMAIN renders |-> renders[i].target]

\* C12: spinningCube.visible, which gates the pre-pass, equals
\* options.useVolumetricDepthTest in every reachable state; so a frame drawn
\* while the option is on renders the scene into the depth render target and
\* then to the screen, and a frame drawn while it is off renders to the
\* screen only.
C12_PrepassIffDepthTest ==
    /\ [](spinningCubeVisible = options.useVolumetricDepthTest)
    /\ [][frameCount' # frameCount =>
            RenderTargets(frameRenders') =
                IF options.useVolumetricDepthTest
                THEN <<"renderTarget", "screen">>
                ELSE <<"screen">>]_vars

C12_Witness ==
    /\ frameCount = 2
    /\ options.useVolumetricDepthTest
    /\ RenderTargets(frameRenders) = <<"renderTarget", "screen">>

\* C15: a frame update adds exactly dt * timescale to the time uniform and
\* assigns a newly drawn value to the random uniform, both before any render
\* of that frame; no other step changes the time uniform.
C15_FrameAdvancesTimeBeforeRender ==
    [][/\ frameCount' # frameCount =>
            /\ timeValue' = timeValue + dt' * timescale
            /\ randomValue' \in RandomValues
            /\ frameRenders' # <<>>
            /\ \A i \in DOMAIN frameRenders' :
                /\ frameRenders'[i].time = timeValue'
                /\ frameRenders'[i].random = randomValue'
       /\ frameCount' = frameCount => timeValue' = timeValue]_vars

C15_Witness ==
    /\ frameCount = 2
    /\ timescale = 80
    /\ frameIn.scale = 80
    /\ timeValue > frameIn.time
    /\ frameRenders # <<>>
    /\ frameRenders[1].time = timeValue
    /\ frameRenders[1].random = 1

\* C16: when the scene is rendered into the depth render target, the volume
\* renderer is not among the objects drawn into it.
C16_PrepassOmitsVolume ==
    \A i \in DOMAIN frameRenders :
        frameRenders[i].target = "renderTarget" =>
            "volumeRenderer" \notin frameRenders[i].drawn

(***************************************************************************)
(* The custom function.                                                    *)
(***************************************************************************)
CustomFunctionConsistent(o) ==
    /\ o.useCustomFunction <=> o.customFunction # Null
    /\ o.useCustomFunction => o.customFunction = <<glslTextarea>>

\* C17: between events and at every call of updateMaterial,
\* options.useCustomFunction holds exactly if options.customFunction is not
\* null, and then the custom function is the content of the text area; an
\* edit of the text while the function is in use switches it off and
\* rebuilds the material, and an edit while it is not in use changes no
\* option and rebuilds nothing.
C17_CustomFunctionFollowsTextarea ==
    /\ [](/\ CustomFunctionConsistent(options)
          /\ lastMaterialArg # Null => CustomFunctionConsistent(lastMaterialArg[1]))
    /\ [][(/\ appConstructed
           /\ glslTextarea' # glslTextarea
           /\ options'.functionPreset = options.functionPreset) =>
            IF options.useCustomFunction
            THEN /\ options'.customFunction = Null
                 /\ ~options'.useCustomFunction
                 /\ updateMaterialCalls' = updateMaterialCalls + 1
                 /\ lastMaterialArg' = <<options'>>
            ELSE /\ options' = options
                 /\ UNCHANGED materialVars]_vars

C17_Witness ==
    /\ optionsBefore.useCustomFunction
    /\ optionsBefore.customFunction # <<glslTextarea>>
    /\ ~options.useCustomFunction
    /\ options.customFunction = Null
    /\ glslTextarea = <<"return 1.0;">>
    /\ updateMaterialCalls = 2

(***************************************************************************)
(* The palette.                                                            *)
(***************************************************************************)
\* C13: the palette uniform changes only in the callback of a completed
\* load, to the palette of that load: it keeps the palette bound before
\* from the selection of a palette until its image is loaded, and a load
\* that fails or never completes leaves it unchanged.
C13_PaletteChangesOnlyOnLoad ==
    /\ [][uniforms'.palette # uniforms.palette =>
            \E i \in DOMAIN paletteLoads :
                /\ paletteLoads[i].state = "pending"
                /\ paletteLoads'[i].state = "loaded"
                /\ uniforms'.palette = <<PaletteImage(paletteLoads[i].name)>>]_vars
    /\ [][paletteControl' # paletteControl =>
            uniforms'.palette = uniforms.palette]_vars
    /\ [][(\E i \in DOMAIN paletteLoads :
                paletteLoads[i].state # paletteLoads'[i].state
                    /\ paletteLoads'[i].state = "failed") =>
            uniforms'.palette = uniforms.palette]_vars

C13_Witness ==
    /\ Len(paletteLoads) = 3
    /\ paletteLoads[1].state = "loaded"
    /\ paletteLoads[2].state = "failed"
    /\ paletteLoads[3].state = "pending"
    /\ paletteControl = "Plasma"
    /\ uniforms.palette = <<PaletteImage("Viridis")>>

\* C18: once every load started has completed, in whatever order, the
\* palette bound to the palette uniform is the one selected last.
C18_LatestSelectionBound ==
    (/\ paletteLoads # <<>>
     /\ \A i \in DOMAIN paletteLoads : paletteLoads[i].state = "loaded") =>
        uniforms.palette = <<PaletteImage(paletteControl)>>

(***************************************************************************)
(* Extinction coefficient and visible range.                               *)
(***************************************************************************)
\* C14 as stated: the round trip through both handlers gives back exactly
\* the value it started from.
C14_RoundTripExact ==
    (roundTrip # Null /\ roundTrip[1].stage = "back") =>
        IF roundTrip[1].kind = "coefficient"
        THEN /\ options.extinctionCoefficient = roundTrip[1].start
             /\ uniforms.extinctionCoefficient = <<roundTrip[1].start>>
        ELSE options.distance = roundTrip[1].start

\* C14: running the coefficient handler on a coefficient c of the control's
\* range and feeding the distance it derives to the distance handler leaves
\* options.extinctionCoefficient and the uniform equal to each other and
\* equal to c or to a double next to c; symmetrically, the round trip from
\* a distance d leaves options.distance equal to d or to a double next to d.
C14_RoundTripWithinOneUlp ==
    (roundTrip # Null /\ roundTrip[1].stage = "back") =>
        IF roundTrip[1].kind = "coefficient"
        THEN /\ FWithinOneUlp(options.extinctionCoefficient, roundTrip[1].start)
             /\ uniforms.extinctionCoefficient = <<options.extinctionCoefficient>>
        ELSE FWithinOneUlp(options.distance, roundTrip[1].start)

C14_Witness ==
    /\ roundTrip # Null
    /\ roundTrip[1].stage = "back"
    /\ roundTrip[1].kind = "coefficient"
    /\ roundTrip[1].start = SliderValue[41]
    /\ options.extinctionCoefficient = FNext(SliderValue[41])

\* C19: in every reachable state, the initial one included,
\* options.distance = 3.912 / options.extinctionCoefficient, and once a
\* coefficient or distance change has written the uniform, the uniform
\* equals options.extinctionCoefficient.
C19_DistanceIsConstantOverCoefficient ==
    /\ options.distance = FDiv(OpacityConstant, options.extinctionCoefficient)
    /\ uniforms.extinctionCoefficient # Null =>
            uniforms.extinctionCoefficient = <<options.extinctionCoefficient>>

InSliderRange(value) ==
    FLeq(SliderValue[SliderMin], value) /\ FLeq(value, SliderValue[SliderMax])

\* C20: after any changes of the two opacity sliders within their range
\* [0.1, 10], options.extinctionCoefficient, the extinction-coefficient
\* uniform and options.distance are all inside [0.1, 10].
C20_OpacityValuesStayInRange ==
    /\ InSliderRange(options.extinctionCoefficient)
    /\ InSliderRange(options.distance)
    /\ uniforms.extinctionCoefficient # Null =>
            InSliderRange(uniforms.extinctionCoefficient[1])

(***************************************************************************)
(* The simulation time.                                                    *)
(***************************************************************************)
\* C21: over any frames and Time Scale changes within the slider's range
\* [0, 8], the time uniform never decreases, not even in a frame whose
\* timestamp is smaller than that of the frame before, and it grows by at
\* most 8 seconds in one frame.
C21_TimeMonotoneAndBounded ==
    /\ [](timescale \in 0..TimescaleMax)
    /\ [][/\ timeValue' >= timeValue
          /\ timeValue' - timeValue <= TimescaleMax * UnitsPerSecond]_vars

C21_Witness ==
    /\ frameCount = 2
    /\ frameIn.last # Null
    /\ frameIn.last[1] > frameIn.now
    /\ frameIn.scale = TimescaleMax
    /\ dt = MinDt
    /\ timeValue = frameIn.time + TimescaleMax * MinDt

=============================================================================
